---- MODULE Spec2Model ----
(***************************************************************************)
(* GeneticArt (src/main.cpp): a genetic algorithm that approximates a      *)
(* target image with N semi-transparent triangles per chromosome.          *)
(*                                                                         *)
(* Numbers.  The program computes in double.  Every double the program     *)
(* stores in a chromosome is modelled exactly as an integer count of       *)
(* 1/Den, where Den is a common denominator of every value the random      *)
(* macros U_RND and RND / disturb can produce.  rand_r is modelled by a    *)
(* cyclic tape of its return values, fixed by the initial seed.            *)
(***************************************************************************)
EXTENDS Integers, Sequences, FiniteSets, TLC

(* ------------------------------------------------------------ bounds --- *)
\* The program has POP_SIZE 30, N 150, a 512 x 512 canvas and
\* RAND_MAX = 2^31 - 1; the model keeps the formulas and shrinks the sizes.
POP_SIZE == 4
N == 2
RandBits == 2
TapeLen == 5
MaxEpochs == 2
Canvas == 2
SubPix == 4

(* --------------------------------------------------- program constants - *)
V == 3
OpacityPct == 15

RAND_MAX == 2^RandBits - 1

RECURSIVE Gcd(_, _)
Gcd(x, y) == IF y = 0 THEN x ELSE Gcd(y, x % y)

Lcm(x, y) == (x * y) \div Gcd(x, y)

RECURSIVE OddLcm(_)
OddLcm(m) == IF m <= 1 THEN 1 ELSE Lcm(m, OddLcm(m - 2))

\* One unit of a modelled double is 1/Den.  Den is a multiple of RAND_MAX
\* (so U_RND = r / RAND_MAX is exact), of 100 (so OPACITY is exact) and of
\* 500 * |2r - RAND_MAX| for every r (so RND / (500 * RND) is exact).
Den == 500 * OddLcm(RAND_MAX)

\* IEEE results of a division by zero.
NaN == -2000000000
PosInf == 1000000000
NegInf == -1000000000

(* ------------------------------------------------------- random draws -- *)
Tapes == [1..TapeLen -> 0..RAND_MAX]

\* rand_r(&seed): returns the next value of the stream and advances seed.
rand_r(s) == s.tape[(s.pos % TapeLen) + 1]

Advance(s, k) == [s EXCEPT !.pos = (s.pos + k) % TapeLen]

\* U_RND = (double) r / RAND_MAX, in units of 1/Den.
U_RND(r) == r * (Den \div RAND_MAX)

\* U_RND < num/den and U_RND > num/den for the thresholds of the program.
ULess(r, num, den) == r * den < num * RAND_MAX

UGreater(r, num, den) == r * den > num * RAND_MAX

\* RND = 2.0 * r / RAND_MAX - 1.0 is RNDNum(r) / RAND_MAX.
RNDNum(r) == 2 * r - RAND_MAX

Sign(x) == IF x < 0 THEN -1 ELSE 1

Abs(x) == IF x < 0 THEN -x ELSE x

\* mult * RND / disturb in units of 1/Den, for RND = n / RAND_MAX and
\* disturb = 500 * d / RAND_MAX.
Quotient(mult, n, d) ==
    IF d = 0
    THEN IF n = 0 THEN NaN ELSE IF n > 0 THEN PosInf ELSE NegInf
    ELSE Sign(n) * Sign(d) * ((mult * Den * Abs(n)) \div (500 * Abs(d)))

\* x += delta.
PlusEq(x, delta) ==
    IF x = NaN \/ delta = NaN THEN NaN
    ELSE IF delta = PosInf \/ delta = NegInf THEN delta
    ELSE x + delta

OutOfRange_lowOnly(x) == x # NaN /\ x < 0

\* x < .0f || x > 1.f  (false for NaN).
OutOfRange(x) == x # NaN /\ (x < 0 \/ x > Den)

(* ---------------------------------------------------------- Chromosome - *)
Tri == 0..(N - 1)
Vert == 0..(V - 1)
Slots == 0..(POP_SIZE - 1)

OPACITY == (OpacityPct * Den) \div 100

\* Chromosome(): point, color and fit_val are value-initialised to zero.
Chromosome ==
    [point |-> [i \in Tri |-> [j \in Vert |-> [k \in 0..1 |-> 0]]],
     color |-> [i \in Tri |-> [k \in 0..3 |-> 0]],
     fit_val |-> 0]

\* A loop: Op applied to the accumulator for each element of seq in order.
\* (Each step's result is bound as a value before the next step starts.)
RECURSIVE FoldSeq(_, _, _)
FoldSeq(Op(_, _), acc, seq) ==
    IF seq = <<>> THEN acc
    ELSE CHOOSE r \in {FoldSeq(Op, v, Tail(seq)) : v \in {Op(acc, Head(seq))}} : TRUE

\* The function f, tabulated.
Tab(f) == f @@ <<>>

\* The index sequences the loops of the program run through.
RECURSIVE UpTo(_, _)
UpTo(lo, hi) == IF lo > hi THEN <<>> ELSE <<lo>> \o UpTo(lo + 1, hi)

RECURSIVE Concat(_)
Concat(ss) == IF ss = <<>> THEN <<>> ELSE Head(ss) \o Concat(Tail(ss))

TriSeq == UpTo(0, N - 1)

\* for i { for j { ... } }
TriVertSeq == Concat([i \in 1..N |-> [j \in 1..V |-> <<i - 1, j - 1>>]])

SetPoint(c, i, j, k, v) == [c EXCEPT !.point[i][j][k] = v]

SetColor(c, i, k, v) == [c EXCEPT !.color[i][k] = v]

(* ------------------------------------------------------ mutate_change -- *)
\* if (U_RND > 0.5f) point[i][j][k] = U_RND;
ChangePoint(acc, i, j, k) ==
    IF UGreater(rand_r(acc.seed), 1, 2)
    THEN [c |-> SetPoint(acc.c, i, j, k, U_RND(rand_r(Advance(acc.seed, 1)))),
          seed |-> Advance(acc.seed, 2)]
    ELSE [c |-> acc.c, seed |-> Advance(acc.seed, 1)]

\* if (U_RND > 0.5f) { color[i][0] = U_RND; color[i][1] = U_RND; color[i][2] = U_RND; }
ChangeColor(acc, i) ==
    IF UGreater(rand_r(acc.seed), 1, 2)
    THEN [c |-> [acc.c EXCEPT !.color[i] =
                    [k \in 0..3 |-> IF k = 3 THEN @[3]
                                    ELSE U_RND(rand_r(Advance(acc.seed, 1 + k)))]],
          seed |-> Advance(acc.seed, 4)]
    ELSE [c |-> acc.c, seed |-> Advance(acc.seed, 1)]

ChangeVertex(acc, ij) ==
    ChangePoint(ChangePoint(acc, ij[1], ij[2], 0), ij[1], ij[2], 1)

ChangeTriangle(acc, i) ==
    ChangeColor(FoldSeq(ChangeVertex, acc, [j \in 1..V |-> <<i, j - 1>>]), i)

\* Chromosome::mutate_change on chromosome c with the stream at s:
\* the mutated chromosome and the stream after the call.
mutate_change(c, s) == FoldSeq(ChangeTriangle, [c |-> c, seed |-> s], TriSeq)

(* ----------------------------------------------------- mutate_disturb -- *)
\* if (point[j][k][x] < .0f || point[j][k][x] > 1.f) point[j][k][x] = U_RND;
CheckPoint(acc, j, k, x) ==
    IF OutOfRange(acc.c.point[j][k][x])
    THEN [acc EXCEPT !.c = SetPoint(acc.c, j, k, x, U_RND(rand_r(acc.seed))),
                     !.seed = Advance(acc.seed, 1)]
    ELSE acc

\* if (color[j][x] < .0f || color[j][x] > 1.f) color[j][x] = U_RND;
CheckColor(acc, j, x) ==
    IF OutOfRange(acc.c.color[j][x])
    THEN [acc EXCEPT !.c = SetColor(acc.c, j, x, U_RND(rand_r(acc.seed))),
                     !.seed = Advance(acc.seed, 1)]
    ELSE acc

\* if (U_RND < 0.25f) { point[j][k][0] += RND / disturb; point[j][k][1] += RND / disturb; }
DisturbPoint(acc, j, k) ==
    IF ULess(rand_r(acc.seed), 1, 4)
    THEN LET d0 == Quotient(1, RNDNum(rand_r(Advance(acc.seed, 1))), acc.disturb)
             d1 == Quotient(1, RNDNum(rand_r(Advance(acc.seed, 2))), acc.disturb)
         IN  [acc EXCEPT !.c = [acc.c EXCEPT !.point[j][k] =
                                   [x \in 0..1 |-> PlusEq(@[x], IF x = 0 THEN d0 ELSE d1)]],
                         !.seed = Advance(acc.seed, 3)]
    ELSE [acc EXCEPT !.seed = Advance(acc.seed, 1)]

\* if (U_RND < 0.5f) { color[j][0..2] += 10 * RND / disturb; }
DisturbColor(acc, j) ==
    IF ULess(rand_r(acc.seed), 1, 2)
    THEN [acc EXCEPT !.c = [acc.c EXCEPT !.color[j] =
                               [x \in 0..3 |->
                                   IF x = 3 THEN @[3]
                                   ELSE PlusEq(@[x],
                                          Quotient(10, RNDNum(rand_r(Advance(acc.seed, 1 + x))),
                                                   acc.disturb))]],
                     !.seed = Advance(acc.seed, 4)]
    ELSE [acc EXCEPT !.seed = Advance(acc.seed, 1)]

DisturbVertex(acc, jk) ==
    CheckPoint(CheckPoint(DisturbPoint(acc, jk[1], jk[2]), jk[1], jk[2], 0), jk[1], jk[2], 1)

DisturbTriangle(acc, j) ==
    CheckColor(CheckColor(CheckColor(
        DisturbColor(FoldSeq(DisturbVertex, acc, [k \in 1..V |-> <<j, k - 1>>]), j),
        j, 0), j, 1), j, 2)

\* Chromosome::mutate_disturb(disturb) on chromosome c with the stream at s;
\* disturb = 500 * d / RAND_MAX is passed as d.
mutate_disturb(c, s, d) ==
    LET r == FoldSeq(DisturbTriangle, [c |-> c, seed |-> s, disturb |-> d], TriSeq)
    IN  [c |-> r.c, seed |-> r.seed]

(* --------------------------------------------------------- crossover --- *)
\* int p = ceil(U_RND * N);
CutIndex(r) == (r * N + RAND_MAX - 1) \div RAND_MAX

FromA_inclusive(i, p) == i <= p

\* if (i < p) take a's triangle i, else b's.
FromA(i, p) == i < p

\* one_point_co(a, b, c): a and b are passed by value, c by reference.
one_point_co(a, b, c, s) ==
    LET p == CutIndex(rand_r(s))
    IN  [c |-> [c EXCEPT
                  !.point = [i \in Tri |-> IF FromA(i, p) THEN a.point[i] ELSE b.point[i]],
                  !.color = [i \in Tri |-> [k \in 0..3 |->
                                IF k = 3 THEN c.color[i][3]
                                ELSE IF FromA(i, p) THEN a.color[i][k] ELSE b.color[i][k]]]],
         seed |-> Advance(s, 1),
         p |-> p]

\* The body of the inner loop of n_points_co: one coin per (i, j); it copies
\* vertex j of triangle i, and the R,G,B of triangle i, from the parent drawn.
NPointsVertex(acc, ij) ==
    LET i == ij[1]
        j == ij[2]
        src == IF ULess(rand_r(acc.seed), 1, 2) THEN acc.a ELSE acc.b
    IN  [acc EXCEPT !.c = [acc.c EXCEPT !.point[i][j] = src.point[i][j],
                                        !.color[i] = [k \in 0..3 |->
                                            IF k = 3 THEN @[3] ELSE src.color[i][k]]],
                    !.seed = Advance(acc.seed, 1)]

n_points_co(a, b, c, s) ==
    LET r == FoldSeq(NPointsVertex, [c |-> c, seed |-> s, a |-> a, b |-> b], TriVertSeq)
    IN  [c |-> r.c, seed |-> r.seed]

(* ---------------------------------------------------------- renderer -- *)
\* OpenGL state read by fitness(): blending (glEnable(GL_BLEND) with
\* SRC_ALPHA / ONE_MINUS_SRC_ALPHA) and the projection (gluOrtho2D(0,1,0,1)).
\* A fresh context has blending disabled and the identity projection, which
\* maps [-1,1] x [-1,1] onto the window.
GLDefault == [blend |-> FALSE, ortho |-> FALSE]

\* The state gl_display leaves behind.
GLDisplay == [blend |-> TRUE, ortho |-> TRUE]

Pixels == 0..(Canvas * Canvas - 1)

PixelSeq == UpTo(0, Canvas * Canvas - 1)

\* The target image input.pixel, row-major RGB bytes.
InputPixel(px, ch) == (80 * (px % Canvas) + 120 * (px \div Canvas) + 50 * ch) % 256

\* Window coordinate of a chromosome coordinate x, snapped to the sub-pixel
\* grid, in units of 1/(2*SubPix) pixel.
WindowCoord(x, gl) ==
    LET w2 == IF gl.ortho THEN 2 * Canvas * x ELSE Canvas * (x + Den)
    IN  2 * ((w2 * SubPix) \div (2 * Den))

EdgeFn(ax, ay, bx, by, qx, qy) == (bx - ax) * (qy - ay) - (by - ay) * (qx - ax)

\* Triangle i of c covers the centre of pixel px.
Covers(c, i, px, gl) ==
    LET pt == c.point[i]
        qx == (2 * (px % Canvas) + 1) * SubPix
        qy == (2 * (px \div Canvas) + 1) * SubPix
    IN  IF \E j \in Vert, k \in 0..1 : pt[j][k] \in {NaN, PosInf, NegInf}
        THEN FALSE
        ELSE LET x0 == WindowCoord(pt[0][0], gl)
                 y0 == WindowCoord(pt[0][1], gl)
                 x1 == WindowCoord(pt[1][0], gl)
                 y1 == WindowCoord(pt[1][1], gl)
                 x2 == WindowCoord(pt[2][0], gl)
                 y2 == WindowCoord(pt[2][1], gl)
                 e0 == EdgeFn(x0, y0, x1, y1, qx, qy)
                 e1 == EdgeFn(x1, y1, x2, y2, qx, qy)
                 e2 == EdgeFn(x2, y2, x0, y0, qx, qy)
             IN  /\ EdgeFn(x0, y0, x1, y1, x2, y2) # 0
                 /\ \/ (e0 >= 0 /\ e1 >= 0 /\ e2 >= 0)
                    \/ (e0 <= 0 /\ e1 <= 0 /\ e2 <= 0)

\* glColor4f clamps a channel to [0,1].
Clamp(x) == IF x = NaN \/ x < 0 THEN 0 ELSE IF x > Den THEN Den ELSE x

\* The byte written for source channel x over destination byte dst.
WritePixel(x, alpha, dst, gl) ==
    IF gl.blend
    THEN LET ap == (Clamp(alpha) * 100) \div Den
         IN  (255 * Clamp(x) * ap + dst * (100 - ap) * Den + 50 * Den) \div (100 * Den)
    ELSE (2 * 255 * Clamp(x) + Den) \div (2 * Den)

\* One step of Chromosome::draw: triangle i composited over the buffer.
DrawTriangle(acc, i) ==
    [acc EXCEPT !.window =
        Tab([px \in Pixels |->
            IF Covers(acc.c, i, px, acc.gl)
            THEN Tab([ch \in 0..2 |->
                     WritePixel(acc.c.color[i][ch], acc.c.color[i][3], @[px][ch], acc.gl)])
            ELSE @[px]])]

\* glClear; draw(); glReadPixels: the window buffer after rendering c.
Render(c, gl) ==
    FoldSeq(DrawTriangle,
            [c |-> c, gl |-> gl, window |-> [px \in Pixels |-> [ch \in 0..2 |-> 0]]],
            TriSeq).window

Sq(x) == x * x

PixelError(acc, px) ==
    [acc EXCEPT !.fit = @ + Sq(acc.window[px][0] - InputPixel(px, 0))
                          + Sq(acc.window[px][1] - InputPixel(px, 1))
                          + Sq(acc.window[px][2] - InputPixel(px, 2))]

\* Chromosome::fitness under the OpenGL state gl.
fitness(c, gl) ==
    FoldSeq(PixelError, [fit |-> 0, window |-> Render(c, gl)], PixelSeq).fit

\* population[i].fit_val = population[i].fitness();
Evaluate(c, gl) == [c EXCEPT !.fit_val = fitness(c, gl)]

(* -------------------------------------------------------------- sort --- *)
\* Chromosome::key
key(a, b) == a.fit_val < b.fit_val

IsSorted(pop) == \A i \in 0..(POP_SIZE - 2) : ~key(pop[i + 1], pop[i])

\* std::sort(population, population + POP_SIZE, Chromosome::key).  The
\* result is ascending by key; std::sort is not stable, so where chromosomes
\* with equal fit_val end up is up to the library the program is built
\* with.  The model knows two libraries: one that leaves equal chromosomes
\* in their order ("stable"), one that reverses them ("reversing").
SortImpls == {"stable", "reversing"}

\* The chromosome at pop[j] goes before the one at pop[i].
Before(pop, j, i, impl) ==
    \/ key(pop[j], pop[i])
    \/ /\ ~key(pop[i], pop[j])
       /\ IF impl = "stable" THEN j < i ELSE j > i

StdSort_unsorted(pop, impl) == pop

StdSort(pop, impl) ==
    Tab([n \in Slots |->
        pop[CHOOSE i \in Slots : Cardinality({j \in Slots : Before(pop, j, i, impl)}) = n]])

(* ----------------------------------------------------------- gen_pop --- *)
DrawsPerTriangle == 2 * V + 3

\* gen_pop(population) with the stream at s.
gen_pop(s) ==
    [pop |-> [i \in Slots |->
                [point |-> [j \in Tri |-> [k \in Vert |-> [x \in 0..1 |->
                     U_RND(rand_r(Advance(s, (i * N + j) * DrawsPerTriangle + 2 * k + x)))]]],
                 color |-> [j \in Tri |-> [x \in 0..3 |->
                     IF x = 3 THEN OPACITY
                     ELSE U_RND(rand_r(Advance(s, (i * N + j) * DrawsPerTriangle + 2 * V + x)))]],
                 fit_val |-> 0]],
     seed |-> Advance(s, POP_SIZE * N * DrawsPerTriangle)]

(* ----------------------------------------------------------- gl_idle --- *)
FirstNonElite_early == POP_SIZE - ((3 * POP_SIZE + 3) \div 4) - 1

\* POP_SIZE - ceil(POP_SIZE * 0.75): the first slot the loop of gl_idle writes.
FirstNonElite == POP_SIZE - ((3 * POP_SIZE + 3) \div 4)

Elite == 0..(FirstNonElite - 1)

NonElite == FirstNonElite..(POP_SIZE - 1)

ParentIndex_noWrap(r) == (2 * r * POP_SIZE + RAND_MAX) \div (2 * RAND_MAX)

\* ((int) round(U_RND * POP_SIZE)) % POP_SIZE
ParentIndex(r) == ((2 * r * POP_SIZE + RAND_MAX) \div (2 * RAND_MAX)) % POP_SIZE

ReadSlot_next(pop, a) == pop[(a + 1) % POP_SIZE]

\* population[a] as an argument passed by value.  An index outside the array
\* would read memory that holds no chromosome of the population; the log
\* keeps the index, and C10_IndicesInRange shows the read never happens.
ReadSlot(pop, a) == IF a \in Slots THEN pop[a] ELSE Chromosome

\* What one pass of the loop body did: the operator, the raw draws and the
\* indices computed from them, the arguments and the chromosome written.
LogEntry(slot, op, ra, rb, rp, a, b, p, d, pa, pb, before, after) ==
    [slot |-> slot, op |-> op, ra |-> ra, rb |-> rb, rp |-> rp, a |-> a, b |-> b,
     p |-> p, d |-> d, pa |-> pa, pb |-> pb, before |-> before, after |-> after]

\* The crossover branch of the loop body for slot i, the stream at s (after
\* the draw that chose crossover): the chromosome written to slot i.
CrossoverSlot(pop, i, s) ==
    LET ra == rand_r(s)
        rb == rand_r(Advance(s, 1))
        a == ParentIndex(ra)
        b == ParentIndex(rb)
        pa == ReadSlot(pop, a)
        pb == ReadSlot(pop, b)
        s3 == Advance(s, 3)
    IN  IF ULess(rand_r(Advance(s, 2)), 1, 2)
        THEN LET r == one_point_co(pa, pb, pop[i], s3)
             IN  [c |-> r.c, seed |-> r.seed,
                  entry |-> LogEntry(i, "one_point_co", ra, rb, rand_r(s3), a, b, r.p, 0,
                                     pa, pb, pop[i], r.c)]
        ELSE LET r == n_points_co(pa, pb, pop[i], s3)
             IN  [c |-> r.c, seed |-> r.seed,
                  entry |-> LogEntry(i, "n_points_co", ra, rb, -1, a, b, -1, 0,
                                     pa, pb, pop[i], r.c)]

\* The mutation branch of the loop body for slot i.
MutateSlot(pop, i, s) ==
    IF ULess(rand_r(s), 95, 100)
    THEN LET d == RNDNum(rand_r(Advance(s, 1)))
             r == mutate_disturb(pop[i], Advance(s, 2), d)
         IN  [c |-> r.c, seed |-> r.seed,
              entry |-> LogEntry(i, "mutate_disturb", -1, -1, -1, -1, -1, -1, d,
                                 pop[i], pop[i], pop[i], r.c)]
    ELSE LET r == mutate_change(pop[i], Advance(s, 1))
         IN  [c |-> r.c, seed |-> r.seed,
              entry |-> LogEntry(i, "mutate_change", -1, -1, -1, -1, -1, -1, 0,
                                 pop[i], pop[i], pop[i], r.c)]

\* if (U_RND < 0.95) crossover else mutation, for slot i with the stream at s.
ProduceSlot(pop, i, s) ==
    IF ULess(rand_r(s), 95, 100)
    THEN CrossoverSlot(pop, i, Advance(s, 1))
    ELSE MutateSlot(pop, i, Advance(s, 1))

Rescore_skipped(c, g) == c

\* population[i].fit_val = population[i].fitness(); at the end of the loop body.
Rescore(c, g) == Evaluate(c, g)

\* One pass of the loop body of gl_idle: slot i is regenerated in place and
\* its fit_val evaluated.
RegenSlot(acc, i) ==
    LET r == ProduceSlot(acc.pop, i, acc.seed)
        c == Rescore(r.c, acc.gl)
    IN  [acc EXCEPT !.pop[i] = c, !.seed = r.seed,
                    !.log = Append(@, [r.entry EXCEPT !.after = c])]

\* The loop of gl_idle over the slots in the order given.
RegenLoop(pop, s, g, order) ==
    FoldSeq(RegenSlot, [pop |-> pop, seed |-> s, gl |-> g, log |-> <<>>], order)

(* ------------------------------------------------------------- state --- *)
VARIABLES
    population,  \* Chromosome population[POP_SIZE]
    epochs,      \* int epochs
    seed,        \* unsigned int seed, as the stream rand_r draws from it
    gl,          \* the OpenGL state fitness() renders under
    redisplay,   \* glutPostRedisplay has been called and not yet served
    screen,      \* the front buffer after glutSwapBuffers
    sort_impl,   \* the std::sort the program is built with
    prev,        \* history: population when the last gl_idle was entered
    log          \* history: the passes of the loop body of the last call

vars == <<population, epochs, seed, gl, redisplay, screen, sort_impl, prev, log>>

\* The stream rand_r produces from seed n: the digits of n in base
\* RAND_MAX + 1, repeated.  Every stream of period TapeLen is the stream of
\* some seed.
RECURSIVE Digit(_, _)
Digit(n, k) == IF k = 1 THEN n % (RAND_MAX + 1) ELSE Digit(n \div (RAND_MAX + 1), k - 1)

MaxSeed == 127

SeedStream(n) == [tape |-> [k \in 1..TapeLen |-> Digit(n, k)], pos |-> 0]

Blank == [px \in Pixels |-> [ch \in 0..2 |-> 0]]

\* main up to glutMainLoop: gen_pop, the first evaluations, the first sort.
Init ==
    \E n \in 0..MaxSeed :
        LET g == gen_pop(SeedStream(n))
        IN  /\ sort_impl \in SortImpls
            /\ population = StdSort(Tab([i \in Slots |-> Evaluate(g.pop[i], GLDefault)]),
                                    sort_impl)
            /\ seed = g.seed
            /\ epochs = 0
            /\ gl = GLDefault
            /\ redisplay = TRUE
            /\ screen = Blank
            /\ prev = population
            /\ log = <<>>

\* gl_idle: one generation.
gl_idle ==
    /\ epochs < MaxEpochs
    /\ LET sorted == StdSort(population, sort_impl)
           r == RegenLoop(sorted, seed, gl, UpTo(FirstNonElite, POP_SIZE - 1))
       IN  /\ population' = r.pop
           /\ seed' = r.seed
           /\ log' = r.log
    /\ prev' = population
    /\ epochs' = epochs + 1
    /\ redisplay' = TRUE
    /\ UNCHANGED <<gl, screen, sort_impl>>

\* gl_display: sets the projection and blending, draws population[0].
gl_display ==
    /\ gl' = GLDisplay
    /\ screen' = Render(population[0], GLDisplay)
    /\ redisplay' = FALSE
    /\ UNCHANGED <<population, epochs, seed, sort_impl, prev, log>>

Next == gl_idle \/ gl_display

Spec == Init /\ [][Next]_vars

(* ------------------------------------------- the operators on their own - *)
\* The four genetic operators applied once to chromosomes of the initial
\* population, with the stream at any offset.  one_point_co and n_points_co
\* get population[a] and population[b] by value and write population[i].
call_one_point_co ==
    /\ log = <<>>
    /\ \E a \in Slots, b \in Slots, i \in Slots, k \in 0..(TapeLen - 1) :
          LET s == Advance(seed, k)
              r == one_point_co(population[a], population[b], population[i], s)
          IN  /\ i \in {a, POP_SIZE - 1}
              /\ population' = [population EXCEPT ![i] = r.c]
              /\ seed' = r.seed
              /\ log' = <<LogEntry(i, "one_point_co", -1, -1, rand_r(s), a, b, r.p, 0,
                                   population[a], population[b], population[i], r.c)>>
    /\ UNCHANGED <<epochs, gl, redisplay, screen, sort_impl, prev>>

call_n_points_co ==
    /\ log = <<>>
    /\ \E a \in Slots, b \in Slots, i \in Slots, k \in 0..(TapeLen - 1) :
          LET s == Advance(seed, k)
              r == n_points_co(population[a], population[b], population[i], s)
          IN  /\ i \in {a, POP_SIZE - 1}
              /\ population' = [population EXCEPT ![i] = r.c]
              /\ seed' = r.seed
              /\ log' = <<LogEntry(i, "n_points_co", -1, -1, -1, a, b, -1, 0,
                                   population[a], population[b], population[i], r.c)>>
    /\ UNCHANGED <<epochs, gl, redisplay, screen, sort_impl, prev>>

\* population[i].mutate_disturb(500 * RND)
call_mutate_disturb ==
    /\ log = <<>>
    /\ \E i \in Slots, k \in 0..(TapeLen - 1) :
          LET s == Advance(seed, k)
              d == RNDNum(rand_r(s))
              r == mutate_disturb(population[i], Advance(s, 1), d)
          IN  /\ population' = [population EXCEPT ![i] = r.c]
              /\ seed' = r.seed
              /\ log' = <<LogEntry(i, "mutate_disturb", -1, -1, -1, -1, -1, -1, d,
                                   population[i], population[i], population[i], r.c)>>
    /\ UNCHANGED <<epochs, gl, redisplay, screen, sort_impl, prev>>

call_mutate_change ==
    /\ log = <<>>
    /\ \E i \in Slots, k \in 0..(TapeLen - 1) :
          LET s == Advance(seed, k)
              r == mutate_change(population[i], s)
          IN  /\ population' = [population EXCEPT ![i] = r.c]
              /\ seed' = r.seed
              /\ log' = <<LogEntry(i, "mutate_change", -1, -1, -1, -1, -1, -1, 0,
                                   population[i], population[i], population[i], r.c)>>
    /\ UNCHANGED <<epochs, gl, redisplay, screen, sort_impl, prev>>

NextOps ==
    call_one_point_co \/ call_n_points_co \/ call_mutate_disturb \/ call_mutate_change

SpecOps == Init /\ [][NextOps]_vars

(* ------------------------------------------------------------ claims --- *)
Entries == {log[n] : n \in 1..Len(log)}

\* Triangle i of x and of y: the same three vertices and the same R,G,B.
SameTriangle(x, y, i) ==
    /\ x.point[i] = y.point[i]
    /\ \A k \in 0..2 : x.color[i][k] = y.color[i][k]

SameGenome(x, y) == \A i \in Tri : SameTriangle(x, y, i)

\* C1: every triangle of the child written by n_points_co has all three
\* vertices and its R,G,B equal to those of the same triangle of parent A,
\* or all equal to those of the same triangle of parent B.
C1_ChildTriangleFromOneParent ==
    \A e \in Entries :
        e.op = "n_points_co" =>
            \A i \in Tri : SameTriangle(e.after, e.pa, i) \/ SameTriangle(e.after, e.pb, i)

\* C2: the child written by one_point_co with cut index p has triangle i of
\* parent A for i < p and triangle i of parent B for i >= p; p = 0 gives B on
\* every triangle and p = N gives A on every triangle.
C2_OnePointCut ==
    \A e \in Entries :
        e.op = "one_point_co" =>
            /\ e.p = CutIndex(e.rp)
            /\ \A i \in Tri :
                  IF i < e.p THEN SameTriangle(e.after, e.pa, i)
                             ELSE SameTriangle(e.after, e.pb, i)
            /\ (e.p = 0 => SameGenome(e.after, e.pb))
            /\ (e.p = N => SameGenome(e.after, e.pa))

\* A one-point crossover that cut strictly inside the genome, of parents that
\* differ in every triangle.
C2_Witness ==
    \E e \in Entries :
        /\ e.op = "one_point_co"
        /\ 0 < e.p /\ e.p < N
        /\ \A i \in Tri : ~SameTriangle(e.pa, e.pb, i)

\* Every vertex coordinate and every R,G,B channel of c lies in [0,1].
InUnitRange(c) ==
    /\ \A i \in Tri, j \in Vert, k \in 0..1 : c.point[i][j][k] \in 0..Den
    /\ \A i \in Tri, k \in 0..2 : c.color[i][k] \in 0..Den

\* C5: a chromosome with every coordinate and channel in [0,1] still has
\* every coordinate and channel in [0,1] after mutate_change, and after
\* mutate_disturb with any intensity 500 * RND.
C5_MutationStaysInRange ==
    \A e \in Entries :
        (e.op \in {"mutate_disturb", "mutate_change"} /\ InUnitRange(e.before))
            => InUnitRange(e.after)

\* A disturb mutation with a negative intensity of the smallest magnitude
\* that moved some coordinate of a chromosome that was in range.
C5_Witness ==
    \E e \in Entries :
        /\ e.op = "mutate_disturb"
        /\ e.d = -1
        /\ InUnitRange(e.before)
        /\ e.after.point # e.before.point

\* The slots the claims call elite: 0 .. POP_SIZE - ceil(0.75 * POP_SIZE) - 1.
EliteSlots == 0..(POP_SIZE - ((3 * POP_SIZE + 3) \div 4) - 1)

RECURSIVE MinOver(_, _)
MinOver(pop, n) ==
    IF n = 0 THEN pop[0].fit_val
    ELSE LET m == MinOver(pop, n - 1)
         IN  IF pop[n].fit_val < m THEN pop[n].fit_val ELSE m

\* The minimum fit_val over the whole population.
MinFit(pop) == MinOver(pop, POP_SIZE - 1)

\* C3 as stated: after a call of gl_idle on a population that was sorted,
\* every elite slot holds the chromosome (triangles and fit_val) it held
\* before the call.
C3_EliteSlotsUnchanged ==
    (epochs >= 1 /\ IsSorted(prev)) =>
        \A i \in EliteSlots : population[i] = prev[i]

\* C3 amended: after a call of gl_idle on a population that was sorted,
\* every elite slot holds the fit_val it held before, and a chromosome that
\* some slot with that fit_val held before; it holds its own chromosome of
\* before when no other slot shared its fit_val.
C3_EliteSlotsKeepScore ==
    (epochs >= 1 /\ IsSorted(prev)) =>
        \A i \in EliteSlots :
            /\ population[i].fit_val = prev[i].fit_val
            /\ \E j \in Slots : population[i] = prev[j]
            /\ (\A j \in Slots \ {i} : prev[j].fit_val # prev[i].fit_val)
                   => population[i] = prev[i]

\* A generation ran on a sorted population in which an elite slot shared its
\* fit_val with a slot holding other triangles, and every non-elite slot was
\* written.
C3_Witness ==
    /\ epochs >= 1
    /\ IsSorted(prev)
    /\ Len(log) = POP_SIZE - Cardinality(EliteSlots)
    /\ \E i \in EliteSlots, j \in Slots :
          /\ prev[j].fit_val = prev[i].fit_val
          /\ ~SameGenome(prev[j], prev[i])

\* C4: the minimum fit_val at the end of a generation is at most the
\* minimum fit_val at the end of the generation before (prev is the
\* population as the generation before left it).
C4_BestNeverWorse ==
    epochs >= 1 => MinFit(population) <= MinFit(prev)

\* A second generation that improved on the best score of the first.
C4_Witness ==
    /\ epochs >= 2
    /\ MinFit(population) < MinFit(prev)

\* C6: whenever gl_display can run, population is sorted ascending by
\* fit_val and population[0] has the lowest fit_val.
C6_SortedBetweenSteps ==
    /\ IsSorted(population)
    /\ population[0].fit_val = MinFit(population)

\* C7: every evaluation renders under the same OpenGL state, so evaluating
\* the chromosome of a slot again, now, returns the score cached for it.
C7_SameScoreAtAnyTime ==
    \A i \in Slots : population[i].fit_val = fitness(population[i], gl)

\* C8: the fit_val cached in every slot is a score fitness() returns for the
\* triangles the slot holds now (under one of the OpenGL states the run
\* evaluates in).
C8_ScoreBelongsToTriangles ==
    \A i \in Slots :
        \E g \in {GLDefault, GLDisplay} : population[i].fit_val = fitness(population[i], g)

\* A generation wrote a slot whose triangles and score both changed.
C8_Witness ==
    /\ epochs >= 1
    /\ \E e \in Entries :
          /\ population[e.slot] = e.after
          /\ ~SameGenome(e.after, e.before)
          /\ e.after.fit_val # e.before.fit_val

\* C10: the parent indices computed in gl_idle lie in 0..POP_SIZE-1 and the
\* cut index computed in one_point_co lies in 0..N, whatever rand_r
\* returned (0 and RAND_MAX included).
C10_IndicesInRange ==
    \A e \in Entries :
        /\ e.op \in {"one_point_co", "n_points_co"} => (e.a \in Slots /\ e.b \in Slots)
        /\ e.op = "one_point_co" => e.p \in 0..N

\* A generation in which rand_r returned RAND_MAX for a parent index and
\* for a cut index, and 0 for a parent index.
C10_Witness ==
    /\ \E e \in Entries : e.op = "one_point_co" /\ e.rp = RAND_MAX
    /\ \E e \in Entries : e.op \in {"one_point_co", "n_points_co"} /\ RAND_MAX \in {e.ra, e.rb}
    /\ \E e \in Entries : e.op \in {"one_point_co", "n_points_co"} /\ 0 \in {e.ra, e.rb}

\* The chromosome the loop body produces for slot i on the array pop, the
\* stream at the offset k attached to the slot.
Produced(pop, i, k) == ProduceSlot(pop, i, Advance(seed, k))

\* The array after one pass of the loop body for slot j, the stream as the
\* call finds it.
AfterPass(pop, j) ==
    RegenSlot([pop |-> pop, seed |-> seed, gl |-> gl, log |-> <<>>], j).pop

Offsets == 0..(TapeLen - 1)

\* The draws of a pass read slot j as a parent.
ReadsSlot(e, j) == e.op \in {"one_point_co", "n_points_co"} /\ j \in {e.a, e.b}

\* C9 as stated: with the draws attached to each slot fixed, the chromosome
\* produced for a non-elite slot i is the same whether or not another
\* non-elite slot j was regenerated before it in the same call.
C9_SlotsIndependent ==
    LET sorted == StdSort(population, sort_impl)
    IN  \A j \in NonElite :
            LET first == AfterPass(sorted, j)
            IN  \A i \in NonElite \ {j}, ki \in Offsets :
                    SameGenome(Produced(sorted, i, ki).c, Produced(first, i, ki).c)

\* C9 amended: the chromosome produced for a non-elite slot i is the same
\* whether or not another non-elite slot j was regenerated before it, unless
\* the draws of slot i make j one of its parents.
C9_IndependentUnlessParent ==
    LET sorted == StdSort(population, sort_impl)
    IN  \A j \in NonElite :
            LET first == AfterPass(sorted, j)
            IN  \A i \in NonElite \ {j}, ki \in Offsets :
                    LET alone == Produced(sorted, i, ki)
                    IN  ~ReadsSlot(alone.entry, j)
                            => SameGenome(alone.c, Produced(first, i, ki).c)

\* In a generation after the first: a crossover for slot i whose parents are
\* not slot j and that changed the triangles of slot i, after a pass that
\* changed the triangles of slot j.
C9_Witness ==
    LET sorted == StdSort(population, sort_impl)
    IN  epochs >= 1 /\ \E j \in NonElite :
            LET first == AfterPass(sorted, j)
            IN  /\ ~SameGenome(first[j], sorted[j])
                /\ \E i \in NonElite \ {j}, ki \in Offsets :
                      LET alone == Produced(sorted, i, ki)
                      IN  /\ alone.entry.op \in {"one_point_co", "n_points_co"}
                          /\ ~ReadsSlot(alone.entry, j)
                          /\ ~SameGenome(alone.c, sorted[i])

====
